---- MODULE Spec2Model ----
(***************************************************************************)
(* EcoFinds: the two backend skeletons of src/BACKEND/server.js            *)
(* (Express/MySQL, lines 1-243, and Flask/PostgreSQL, lines 245-439).      *)
(* One deployment runs one backend; `backend` records which.  Time is      *)
(* counted in hours.                                                       *)
(***************************************************************************)
EXTENDS Integers, Sequences, FiniteSets, TLC

VARIABLES backend,      \* "express" or "flask": the server that is deployed
          now,          \* the server clock, in hours
          users,        \* table users
          products,     \* table products
          cart_items,   \* table cart_items (Flask)
          orders,       \* table orders (Flask)
          nextId,       \* the AUTO_INCREMENT / SERIAL counter of each table
          inflight,     \* Express registrations hashed but not yet inserted
          txs,          \* open checkout transactions (Flask)
          emitted,      \* number of newProduct events emitted (Express)
          req,          \* the request answered last
          resp,         \* its response
          client,       \* the React client (src/frend.jsx): its session
          page          \* the plain-DOM client (src/FRONTEND/OMKAR.JS, src/unnamed/part_000)

vars == <<backend, now, users, products, cart_items, orders, nextId,
          inflight, txs, emitted, req, resp, client, page>>

db == <<users, products, cart_items, orders>>

----------------------------------------------------------------------------
(* Bounds of the model *)
MaxUsers    == 2
MaxProducts == 1
MaxCart     == 2
MaxLate     == 1
MaxInflight == 1
MaxTx       == 1

(* Program constants *)
JWT_SECRET   == "supersecret"
EXPRESS_TTL  == 1
FLASK_TTL    == 8

(* Inputs *)
Null      == "NULL"
Emails    == {"a@x.com", "b@x.com"}
Passwords == {"secret1", "hunter2"}

----------------------------------------------------------------------------
(* Small helpers *)
Get(data, k) == IF k \in DOMAIN data THEN data[k] ELSE Null

Truthy(data, k) == k \in DOMAIN data /\ data[k] # "" /\ data[k] # Null

toString(n) ==
  CASE n = 0 -> "0" [] n = 1 -> "1" [] n = 2 -> "2" [] n = 3 -> "3"
    [] n = 4 -> "4" [] OTHER -> "9"

(* bcrypt: a one-way hash that verifies against the plaintext it was made of *)
bcrypt_hash(pw) == "$2b$" \o pw

bcrypt_verify(pw, h) == h = bcrypt_hash(pw)

----------------------------------------------------------------------------
(* Tokens.  A JWT is its claims and the key that signed it. *)
Empty   == [kind |-> "empty"]
Garbage == [kind |-> "garbage"]

jwt_sign(claims, key) == [kind |-> "jwt", claims |-> claims, key |-> key]

(* jwt.verify / jwt.decode: "ok", or the reason of the failure *)
jwt_check(token, key, t) ==
  IF token.kind # "jwt" THEN "malformed"
  ELSE IF token.key # key THEN "badsignature"
  ELSE IF t >= token.claims.exp THEN "expired"
  ELSE "ok"

(* Variant: the token is signed with another key than the gate verifies with *)
ExpressIssue_OtherKey(user, t) ==
  jwt_sign([id |-> user.id, email |-> user.email, iat |-> t, exp |-> t + EXPRESS_TTL],
           "otherkey")

ExpressIssue(user, t) ==
  jwt_sign([id |-> user.id, email |-> user.email, iat |-> t, exp |-> t + EXPRESS_TTL],
           JWT_SECRET)

(* Variant: timedelta(hours=1) *)
FlaskIssue_OneHour(uid, t) ==
  jwt_sign([uid |-> uid, exp |-> t + 1], JWT_SECRET)

FlaskIssue(uid, t) ==
  jwt_sign([uid |-> uid, exp |-> t + FLASK_TTL], JWT_SECRET)

(* The Authorization header as the list of its space-separated parts;
   <<>> is a request without the header. *)
authMiddleware(hdr, t) ==
  LET token == IF Len(hdr) >= 2 THEN hdr[2] ELSE Empty IN
  IF token.kind = "empty"
    THEN [ok |-> FALSE, status |-> 401, user |-> 0,
          body |-> [error |-> "Authentication failed: No token provided."]]
  ELSE IF jwt_check(token, JWT_SECRET, t) = "ok"
    THEN [ok |-> TRUE, status |-> 200, user |-> token.claims.id, body |-> <<>>]
  ELSE [ok |-> FALSE, status |-> 401, user |-> 0,
        body |-> [error |-> "Authentication failed: Invalid token."]]

(* Variant: the signature is verified but the expiry is not *)
require_auth_NoExpiry(hdr, t) ==
  IF ~(Len(hdr) >= 2 /\ hdr[1] = "Bearer")
    THEN [ok |-> FALSE, status |-> 401, user |-> 0, body |-> [error |-> "Missing token"]]
  ELSE IF hdr[2].kind = "jwt" /\ hdr[2].key = JWT_SECRET
    THEN [ok |-> TRUE, status |-> 200, user |-> hdr[2].claims.uid, body |-> <<>>]
  ELSE [ok |-> FALSE, status |-> 401, user |-> 0, body |-> [error |-> "Invalid token"]]

(* Variant: the server accepts a token only while the session it was issued
   to is open, and logout closes the session *)
require_auth_Session(hdr, t) ==
  IF ~(Len(hdr) >= 2 /\ hdr[1] = "Bearer")
    THEN [ok |-> FALSE, status |-> 401, user |-> 0, body |-> [error |-> "Missing token"]]
  ELSE IF jwt_check(hdr[2], JWT_SECRET, t) = "ok" /\ client.storedToken # <<>>
    THEN [ok |-> TRUE, status |-> 200, user |-> hdr[2].claims.uid, body |-> <<>>]
  ELSE [ok |-> FALSE, status |-> 401, user |-> 0, body |-> [error |-> "Invalid token"]]

require_auth(hdr, t) ==
  IF ~(Len(hdr) >= 2 /\ hdr[1] = "Bearer")
    THEN [ok |-> FALSE, status |-> 401, user |-> 0, body |-> [error |-> "Missing token"]]
  ELSE IF jwt_check(hdr[2], JWT_SECRET, t) = "ok"
    THEN [ok |-> TRUE, status |-> 200, user |-> hdr[2].claims.uid, body |-> <<>>]
  ELSE [ok |-> FALSE, status |-> 401, user |-> 0, body |-> [error |-> "Invalid token"]]

AuthGate(hdr, t) ==
  IF backend = "express" THEN authMiddleware(hdr, t) ELSE require_auth(hdr, t)

----------------------------------------------------------------------------
(* Requests and responses *)
NoCred == [scheme |-> "", state |-> "missing", sub |-> 0]
NoReq  == [route |-> "none", cred |-> NoCred, param |-> "", id |-> 0, data |-> <<>>]
NoResp == [status |-> 0, body |-> <<>>, invoked |-> FALSE, user |-> 0]

(* What the Authorization header of a request carries when it arrives at
   time t: the scheme, the state of the token and the user the token names *)
Subject(token) ==
  IF token.kind # "jwt" THEN 0
  ELSE IF "id" \in DOMAIN token.claims THEN token.claims.id
  ELSE token.claims.uid

Cred(hdr, t) ==
  IF Len(hdr) = 0 THEN NoCred
  ELSE IF Len(hdr) = 1 \/ hdr[2].kind = "empty"
    THEN [scheme |-> hdr[1], state |-> "missing", sub |-> 0]
  ELSE IF hdr[2].kind # "jwt"
    THEN [scheme |-> hdr[1], state |-> "malformed", sub |-> 0]
  ELSE IF hdr[2].key # JWT_SECRET
    THEN [scheme |-> hdr[1], state |-> "badsignature", sub |-> Subject(hdr[2])]
  ELSE IF hdr[2].claims.exp <= t
    THEN [scheme |-> hdr[1], state |-> "expired", sub |-> Subject(hdr[2])]
  ELSE [scheme |-> hdr[1], state |-> "valid", sub |-> Subject(hdr[2])]

Request(route, hdr, param, id, data) ==
  [route |-> route, cred |-> Cred(hdr, now), param |-> param, id |-> id, data |-> data]

(* Answer request rq *)
Respond(rq, status, body, invoked, user) ==
  /\ req' = rq
  /\ resp' = [status |-> status, body |-> body, invoked |-> invoked, user |-> user]

Reject(rq, gate) == Respond(rq, gate.status, gate.body, FALSE, 0)

TTL == IF backend = "express" THEN EXPRESS_TTL ELSE FLASK_TTL

(* The instants the clock is observed at: the start, and around the expiry
   of a token issued at the start *)
Instants == {0} \cup {t \in (TTL - 1)..(TTL + MaxLate) : t >= 0}

(* Tokens a client can present: those a login has issued, or could have,
   just now or one lifetime ago *)
IssueTimes == {t \in {now, now - TTL} : t >= 0}

IssuedTokens ==
  IF backend = "express"
    THEN {ExpressIssue(u, t) : u \in users, t \in IssueTimes}
    ELSE {FlaskIssue(u.id, t) : u \in users, t \in IssueTimes}

ForgedTokens ==
  IF backend = "express"
    THEN {jwt_sign([id |-> 1, email |-> "a@x.com", iat |-> now, exp |-> now + 1], "guess")}
    ELSE {jwt_sign([uid |-> 1, exp |-> now + 1], "guess")}

Headers ==
  {<<>>, <<"Bearer">>, <<"Bearer", Empty>>, <<"Bearer", Garbage>>}
    \cup {<<"Bearer", tk>> : tk \in IssuedTokens \cup ForgedTokens}
    \cup {<<"Basic", tk>> : tk \in {ik \in IssuedTokens : Subject(ik) = 1 /\ ik.claims.exp > now}}

RowById(table, id) == CHOOSE r \in table : r.id = id

----------------------------------------------------------------------------
(* The users table of the Express server: email VARCHAR(255) UNIQUE NOT NULL.
   The outcome of an INSERT of a row with this email, and of an UPDATE that
   gives the row id this email. *)
EmailTaken(email, exceptId) == \E u \in users : u.email = email /\ u.id # exceptId

(* Variant: the email column without UNIQUE *)
InsertUserResult_NoConstraint(email) == "ok"

InsertUserResult(email) == IF EmailTaken(email, 0) THEN "ER_DUP_ENTRY" ELSE "ok"

UpdateUserResult(id, email) ==
  IF email = Null THEN "ER_BAD_NULL_ERROR"
  ELSE IF EmailTaken(email, id) THEN "ER_DUP_ENTRY"
  ELSE "ok"

(* The users table of the Flask server: its DDL is not part of the sources;
   email is unique (section 3 of the specification) *)
FlaskInsertUserResult(email) == IF EmailTaken(email, 0) THEN "UniqueViolation" ELSE "ok"

FlaskUpdateUserResult(id, email) == IF EmailTaken(email, id) THEN "UniqueViolation" ELSE "ok"

----------------------------------------------------------------------------
(* Express server *)
RegisterBodies ==
  {[email |-> "a@x.com", username |-> "ana", password |-> "secret1"],
   [email |-> "b@x.com", username |-> "bob", password |-> "hunter2"]}
    \cup {[email |-> "a@x.com", password |-> "secret1"],
          [username |-> "ana", password |-> "secret1"],
          [email |-> "a@x.com", username |-> "ana"]}

LoginBodies ==
  {[email |-> e, password |-> p] : e \in Emails, p \in Passwords}
    \cup {[email |-> "a@x.com"]}

ProfileBodies == {[username |-> "zed", email |-> e] : e \in Emails}

ProductBodies ==
  {[title |-> "Lamp", category |-> "Home", price |-> p] : p \in {12, 0, -1}}
    \cup {[title |-> "Lamp", price |-> 12], [category |-> "Home", price |-> 12],
          [title |-> "Lamp", category |-> "Home"]}
    \cup {[title |-> "Lamp", category |-> "Home", price |-> 12,
           owner_id |-> 2, user_id |-> 2]}

FirstProductBody == [title |-> "Lamp", category |-> "Home", price |-> 12]

FirstProfileBody == [username |-> "zed", email |-> "a@x.com"]

PathIds == {"1", "2", "01"}

(* POST /api/register, up to the end of bcrypt.hash *)
PostApiRegister ==
  /\ backend = "express"
  /\ \E data \in RegisterBodies, hashFails \in BOOLEAN :
       LET rq == Request("POST /api/register", <<>>, "", 0, data) IN
       IF ~Truthy(data, "email") \/ ~Truthy(data, "password") \/ ~Truthy(data, "username")
         THEN /\ ~hashFails
              /\ Respond(rq, 400, [error |-> "Username, email, and password are required."], TRUE, 0)
              /\ UNCHANGED inflight
       ELSE IF hashFails
         THEN /\ Respond(rq, 500, [error |-> "Registration failed."], TRUE, 0)
              /\ UNCHANGED inflight
       ELSE /\ Len(inflight) < MaxInflight
            /\ inflight' = Append(inflight, [rq |-> rq, hashedPassword |-> bcrypt_hash(data.password)])
            /\ UNCHANGED <<req, resp>>
  /\ UNCHANGED <<backend, now, db, nextId, txs, emitted>>

(* POST /api/register, the INSERT and its callback *)
RegisterInsert ==
  /\ backend = "express"
  /\ \E i \in 1..Len(inflight), dbFails \in BOOLEAN :
       LET e    == inflight[i]
           data == e.rq.data
           rest == [j \in 1..(Len(inflight) - 1) |-> IF j < i THEN inflight[j] ELSE inflight[j + 1]]
       IN
       /\ inflight' = rest
       /\ IF InsertUserResult(data.email) = "ER_DUP_ENTRY"
            THEN /\ ~dbFails
                 /\ Respond(e.rq, 409, [error |-> "Email already registered."], TRUE, 0)
                 /\ UNCHANGED <<users, nextId>>
          ELSE IF dbFails
            THEN /\ Respond(e.rq, 500, [error |-> "Registration failed."], TRUE, 0)
                 /\ UNCHANGED <<users, nextId>>
          ELSE /\ nextId.users <= MaxUsers
               /\ users' = users \cup {[id |-> nextId.users, email |-> data.email,
                                        password |-> e.hashedPassword,
                                        username |-> data.username]}
               /\ nextId' = [nextId EXCEPT !.users = @ + 1]
               /\ Respond(e.rq, 201, [message |-> "Registration successful!"], TRUE, 0)
  /\ UNCHANGED <<backend, now, products, cart_items, orders, txs, emitted>>

(* POST /api/login: the answers to a login with this body at time t (one
   answer for each row that can be results[0]) *)
ExpressLogin(data, t) ==
  LET results == {u \in users : u.email = Get(data, "email")} IN
  IF ~Truthy(data, "email") \/ ~Truthy(data, "password")
    THEN {[status |-> 400, body |-> [error |-> "Email and password are required."]]}
  ELSE IF results = {}
    THEN {[status |-> 401, body |-> [error |-> "Invalid credentials."]]}
  ELSE {IF ~bcrypt_verify(data.password, user.password)
          THEN [status |-> 401, body |-> [error |-> "Invalid credentials."]]
          ELSE [status |-> 200, body |-> [message |-> "Login successful!",
                                          token |-> ExpressIssue(user, t)]]
         : user \in results}

PostApiLogin ==
  /\ backend = "express"
  /\ \E data \in LoginBodies :
       \E r \in ExpressLogin(data, now) :
         Respond(Request("POST /api/login", <<>>, "", 0, data), r.status, r.body, TRUE, 0)
  /\ UNCHANGED <<backend, now, db, nextId, inflight, txs, emitted>>

(* GET /api/products; requests are drawn without a q filter *)
GetApiProducts ==
  /\ backend = "express"
  /\ \E hdr \in Headers, user_id \in {""} \cup PathIds :
       LET rq   == Request("GET /api/products", hdr, user_id, 0, <<>>)
           gate == authMiddleware(hdr, now)
           results == IF user_id # ""
                        THEN {p \in products : toString(p.owner_id) = user_id}
                        ELSE products
       IN
       /\ gate.ok \/ user_id = ""
       /\ IF ~gate.ok THEN Reject(rq, gate)
          ELSE Respond(rq, 200, [items |-> results], TRUE, gate.user)
  /\ UNCHANGED <<backend, now, db, nextId, inflight, txs, emitted>>

(* Variant: INSERT INTO products SET ? with the request body, user_id included *)
PostApiProducts_UserIdFromBody ==
  /\ backend = "express"
  /\ \E hdr \in Headers, data \in ProductBodies, dbFails \in BOOLEAN :
       LET rq   == Request("POST /api/products", hdr, "", 0, data)
           gate == authMiddleware(hdr, now)
       IN
       IF ~gate.ok
         THEN /\ ~dbFails /\ data = FirstProductBody
              /\ Reject(rq, gate)
              /\ UNCHANGED <<products, nextId, emitted>>
       ELSE IF ~Truthy(data, "title") \/ ~Truthy(data, "category")
               \/ "price" \notin DOMAIN data \/ data.price = 0
         THEN /\ ~dbFails
              /\ Respond(rq, 400, [error |-> "Title, category, and price are required."], TRUE, gate.user)
              /\ UNCHANGED <<products, nextId, emitted>>
       ELSE IF dbFails
         THEN /\ Respond(rq, 500, [error |-> "Failed to add product."], TRUE, gate.user)
              /\ UNCHANGED <<products, nextId, emitted>>
       ELSE /\ nextId.products <= MaxProducts
            /\ products' = products \cup {[id |-> nextId.products, title |-> data.title,
                                           category |-> data.category, price |-> data.price,
                                           owner_id |-> IF "user_id" \in DOMAIN data
                                                          THEN data.user_id ELSE gate.user]}
            /\ nextId' = [nextId EXCEPT !.products = @ + 1]
            /\ emitted' = emitted + 1
            /\ Respond(rq, 201, [message |-> "Product added successfully!"], TRUE, gate.user)
  /\ UNCHANGED <<backend, now, users, cart_items, orders, inflight, txs>>

(* Variant: io.emit("newProduct") is called before the error of the INSERT is
   tested *)
PostApiProducts_EmitsBeforeErrTest ==
  /\ backend = "express"
  /\ \E hdr \in Headers, data \in ProductBodies, dbFails \in BOOLEAN :
       LET rq   == Request("POST /api/products", hdr, "", 0, data)
           gate == authMiddleware(hdr, now)
       IN
       IF ~gate.ok
         THEN /\ ~dbFails /\ data = FirstProductBody
              /\ Reject(rq, gate)
              /\ UNCHANGED <<products, nextId, emitted>>
       ELSE IF ~Truthy(data, "title") \/ ~Truthy(data, "category")
               \/ "price" \notin DOMAIN data \/ data.price = 0
         THEN /\ ~dbFails
              /\ Respond(rq, 400, [error |-> "Title, category, and price are required."], TRUE, gate.user)
              /\ UNCHANGED <<products, nextId, emitted>>
       ELSE IF dbFails
         THEN /\ Respond(rq, 500, [error |-> "Failed to add product."], TRUE, gate.user)
              /\ emitted' = emitted + 1
              /\ UNCHANGED <<products, nextId>>
       ELSE /\ nextId.products <= MaxProducts
            /\ products' = products \cup {[id |-> nextId.products, title |-> data.title,
                                           category |-> data.category, price |-> data.price,
                                           owner_id |-> gate.user]}
            /\ nextId' = [nextId EXCEPT !.products = @ + 1]
            /\ emitted' = emitted + 1
            /\ Respond(rq, 201, [message |-> "Product added successfully!"], TRUE, gate.user)
  /\ UNCHANGED <<backend, now, users, cart_items, orders, inflight, txs>>

(* POST /api/products *)
PostApiProducts ==
  /\ backend = "express"
  /\ \E hdr \in Headers, data \in ProductBodies, dbFails \in BOOLEAN :
       LET rq   == Request("POST /api/products", hdr, "", 0, data)
           gate == authMiddleware(hdr, now)
       IN
       IF ~gate.ok
         THEN /\ ~dbFails /\ data = FirstProductBody
              /\ Reject(rq, gate)
              /\ UNCHANGED <<products, nextId, emitted>>
       ELSE IF ~Truthy(data, "title") \/ ~Truthy(data, "category")
               \/ "price" \notin DOMAIN data \/ data.price = 0
         THEN /\ ~dbFails
              /\ Respond(rq, 400, [error |-> "Title, category, and price are required."], TRUE, gate.user)
              /\ UNCHANGED <<products, nextId, emitted>>
       ELSE IF dbFails
         THEN /\ Respond(rq, 500, [error |-> "Failed to add product."], TRUE, gate.user)
              /\ UNCHANGED <<products, nextId, emitted>>
       ELSE /\ nextId.products <= MaxProducts
            /\ products' = products \cup {[id |-> nextId.products, title |-> data.title,
                                           category |-> data.category, price |-> data.price,
                                           owner_id |-> gate.user]}
            /\ nextId' = [nextId EXCEPT !.products = @ + 1]
            /\ emitted' = emitted + 1
            /\ Respond(rq, 201, [message |-> "Product added successfully!"], TRUE, gate.user)
  /\ UNCHANGED <<backend, now, users, cart_items, orders, inflight, txs>>

(* Variant: the handler without the comparison *)
IsSelf_Always(id, userId) == TRUE

(* req.user.id.toString() !== userId, negated *)
IsSelf(id, userId) == toString(id) = userId

(* Variant: the row is serialised as selected *)
WithPassword(user) == user

(* A users row as GET /api/users/:userId serialises it: delete user.password *)
WithoutPassword(user) == [k \in DOMAIN user \ {"password"} |-> user[k]]

(* GET /api/users/:userId *)
GetApiUsersUserId ==
  /\ backend = "express"
  /\ \E hdr \in Headers, userId \in PathIds :
       LET rq   == Request("GET /api/users/:userId", hdr, userId, 0, <<>>)
           gate == authMiddleware(hdr, now)
           results == {u \in users : toString(u.id) = userId}
       IN
       IF ~gate.ok THEN userId = "1" /\ Reject(rq, gate)
       ELSE IF ~IsSelf(gate.user, userId)
         THEN Respond(rq, 403, [error |-> "Forbidden: You can only access your own data."], TRUE, gate.user)
       ELSE IF results = {}
         THEN Respond(rq, 404, [error |-> "User not found."], TRUE, gate.user)
       ELSE \E user \in results :
              Respond(rq, 200, [user |-> WithoutPassword(user)], TRUE, gate.user)
  /\ UNCHANGED <<backend, now, db, nextId, inflight, txs, emitted>>

(* PUT /api/users/:userId *)
PutApiUsersUserId ==
  /\ backend = "express"
  /\ \E hdr \in Headers, userId \in PathIds, data \in ProfileBodies :
       LET rq   == Request("PUT /api/users/:userId", hdr, userId, 0, data)
           gate == authMiddleware(hdr, now)
           hit  == {u \in users : toString(u.id) = userId}
       IN
       IF ~gate.ok
         THEN /\ userId = "1" /\ data = FirstProfileBody
              /\ Reject(rq, gate) /\ UNCHANGED users
       ELSE IF ~IsSelf(gate.user, userId)
         THEN /\ Respond(rq, 403, [error |-> "Forbidden: You can only update your own data."], TRUE, gate.user)
              /\ UNCHANGED users
       ELSE IF hit = {}
         THEN /\ Respond(rq, 404, [error |-> "User not found."], TRUE, gate.user)
              /\ UNCHANGED users
       ELSE IF UpdateUserResult(gate.user, data.email) # "ok"
         THEN /\ Respond(rq, 500, [error |-> "Failed to update user data."], TRUE, gate.user)
              /\ UNCHANGED users
       ELSE /\ users' = {IF u \in hit
                           THEN [u EXCEPT !.username = Get(data, "username"), !.email = data.email]
                           ELSE u : u \in users}
            /\ Respond(rq, 200, [message |-> "User updated successfully!"], TRUE, gate.user)
  /\ UNCHANGED <<backend, now, products, cart_items, orders, nextId, inflight, txs, emitted>>

----------------------------------------------------------------------------
(* Flask server *)
UpdateProductBodies ==
  {[title |-> "Desk", category |-> "Home", price |-> p] : p \in {5, 0, -1}}
    \cup {[title |-> "Desk", category |-> "Home"],
          [title |-> "Desk", category |-> "Home", price |-> 5, owner_id |-> 2]}

FirstUpdateProductBody == [title |-> "Desk", category |-> "Home", price |-> 5]

CartBodies ==
  {[product_id |-> 1], [product_id |-> 2], [product_id |-> 1, quantity |-> 0],
   [product_id |-> 1, quantity |-> -1], [product_id |-> 2, quantity |-> 3], [quantity |-> 2]}

FirstCartBody == [product_id |-> 1]

ProductIds == 1..(MaxProducts + 1)

CartIds == 1..(MaxCart + 1)

(* An uncaught exception in a Flask view: the transaction is rolled back and
   the framework answers 500 with its own page *)
InternalServerError == [html |-> "500 Internal Server Error"]

(* str(e) of the psycopg2 error of a duplicate email *)
UniqueViolationText(email) ==
  "duplicate key value violates unique constraint: Key (email)=(" \o email \o ") already exists."

(* POST /api/auth/signup *)
signup ==
  /\ backend = "flask"
  /\ \E data \in RegisterBodies :
       LET rq == Request("POST /api/auth/signup", <<>>, "", 0, data) IN
       IF ~Truthy(data, "email") \/ ~Truthy(data, "password")
         THEN /\ Respond(rq, 400, [error |-> "Email and password required"], TRUE, 0)
              /\ UNCHANGED <<users, nextId>>
       ELSE IF FlaskInsertUserResult(data.email) # "ok"
         THEN /\ Respond(rq, 400, [error |-> UniqueViolationText(data.email)], TRUE, 0)
              /\ UNCHANGED <<users, nextId>>
       ELSE /\ nextId.users <= MaxUsers
            /\ users' = users \cup {[id |-> nextId.users, email |-> data.email,
                                     password |-> bcrypt_hash(data.password),
                                     username |-> Get(data, "username")]}
            /\ nextId' = [nextId EXCEPT !.users = @ + 1]
            /\ Respond(rq, 200, [message |-> "User created", id |-> nextId.users], TRUE, 0)
  /\ UNCHANGED <<backend, now, products, cart_items, orders, inflight, txs, emitted>>

(* Variant: an unknown email is answered 404 *)
FlaskLogin_UserNotFound(data, t) ==
  LET rows == {u \in users : u.email = data.email} IN
  IF rows = {}
    THEN {[status |-> 404, body |-> [error |-> "User not found"]]}
  ELSE {IF "password" \notin DOMAIN data
          THEN [status |-> 500, body |-> InternalServerError]
        ELSE IF ~bcrypt_verify(data.password, row.password)
          THEN [status |-> 401, body |-> [error |-> "Invalid credentials"]]
        ELSE [status |-> 200,
              body |-> [token |-> FlaskIssue(row.id, t),
                        user |-> [id |-> row.id, email |-> data.email,
                                  username |-> row.username]]]
         : row \in rows}

(* POST /api/auth/login: the answers to a login with this body at time t *)
FlaskLogin(data, t) ==
  LET rows == {u \in users : u.email = data.email} IN
  IF rows = {}
    THEN {[status |-> 401, body |-> [error |-> "Invalid credentials"]]}
  ELSE {IF "password" \notin DOMAIN data
          THEN [status |-> 500, body |-> InternalServerError]
        ELSE IF ~bcrypt_verify(data.password, row.password)
          THEN [status |-> 401, body |-> [error |-> "Invalid credentials"]]
        ELSE [status |-> 200,
              body |-> [token |-> FlaskIssue(row.id, t),
                        user |-> [id |-> row.id, email |-> data.email,
                                  username |-> row.username]]]
         : row \in rows}

login ==
  /\ backend = "flask"
  /\ \E data \in LoginBodies :
       \E r \in FlaskLogin(data, now) :
         Respond(Request("POST /api/auth/login", <<>>, "", 0, data), r.status, r.body, TRUE, 0)
  /\ UNCHANGED <<backend, now, db, nextId, inflight, txs, emitted>>

PublicUser(row) == [id |-> row.id, email |-> row.email, username |-> row.username]

(* GET /api/users/me *)
me ==
  /\ backend = "flask"
  /\ \E hdr \in Headers :
       LET rq   == Request("GET /api/users/me", hdr, "", 0, <<>>)
           gate == require_auth(hdr, now)
           rows == {u \in users : u.id = gate.user}
       IN
       IF ~gate.ok THEN Reject(rq, gate)
       ELSE IF rows = {} THEN Respond(rq, 500, InternalServerError, TRUE, gate.user)
       ELSE \E row \in rows : Respond(rq, 200, PublicUser(row), TRUE, gate.user)
  /\ UNCHANGED <<backend, now, db, nextId, inflight, txs, emitted>>

(* PUT /api/users/me *)
update_me ==
  /\ backend = "flask"
  /\ \E hdr \in Headers, data \in ProfileBodies \cup {[email |-> "b@x.com"]} :
       LET rq   == Request("PUT /api/users/me", hdr, "", 0, data)
           gate == require_auth(hdr, now)
           hit  == {u \in users : u.id = gate.user}
           new  == {[u EXCEPT !.username = data.username, !.email = data.email] : u \in hit}
       IN
       IF ~gate.ok
         THEN /\ data = FirstProfileBody
              /\ Reject(rq, gate) /\ UNCHANGED users
       ELSE IF "username" \notin DOMAIN data \/ "email" \notin DOMAIN data
               \/ FlaskUpdateUserResult(gate.user, data.email) # "ok" \/ hit = {}
         THEN /\ Respond(rq, 500, InternalServerError, TRUE, gate.user)
              /\ UNCHANGED users
       ELSE /\ users' = (users \ hit) \cup new
            /\ \E row \in new : Respond(rq, 200, [user |-> PublicUser(row)], TRUE, gate.user)
  /\ UNCHANGED <<backend, now, products, cart_items, orders, nextId, inflight, txs, emitted>>

(* GET /api/products; requests are drawn without q and category filters *)
list_products ==
  /\ backend = "flask"
  /\ \E hdr \in Headers :
       LET rq   == Request("GET /api/products", hdr, "", 0, <<>>)
           gate == require_auth(hdr, now)
       IN
       IF ~gate.ok THEN Reject(rq, gate)
       ELSE Respond(rq, 200, [items |-> products], TRUE, gate.user)
  /\ UNCHANGED <<backend, now, db, nextId, inflight, txs, emitted>>

(* POST /api/products *)
create_product ==
  /\ backend = "flask"
  /\ \E hdr \in Headers, data \in ProductBodies :
       LET rq   == Request("POST /api/products", hdr, "", 0, data)
           gate == require_auth(hdr, now)
       IN
       IF ~gate.ok
         THEN /\ data = FirstProductBody
              /\ Reject(rq, gate)
              /\ UNCHANGED <<products, nextId>>
       ELSE IF {"title", "category", "price"} \ DOMAIN data # {}
         THEN /\ Respond(rq, 500, InternalServerError, TRUE, gate.user)
              /\ UNCHANGED <<products, nextId>>
       ELSE /\ nextId.products <= MaxProducts
            /\ products' = products \cup {[id |-> nextId.products, title |-> data.title,
                                           category |-> data.category, price |-> data.price,
                                           owner_id |-> gate.user]}
            /\ nextId' = [nextId EXCEPT !.products = @ + 1]
            /\ Respond(rq, 200, [id |-> nextId.products], TRUE, gate.user)
  /\ UNCHANGED <<backend, now, users, cart_items, orders, inflight, txs, emitted>>

(* Variant: UPDATE products SET ..., owner_id=%s with the owner_id of the body *)
update_product_OwnerFromBody ==
  /\ backend = "flask"
  /\ \E hdr \in Headers, pid \in ProductIds, data \in UpdateProductBodies :
       LET rq   == Request("PUT /api/products/:pid", hdr, "", pid, data)
           gate == require_auth(hdr, now)
           hit  == {p \in products : p.id = pid /\ p.owner_id = gate.user}
       IN
       IF ~gate.ok
         THEN /\ pid = 1 /\ data = FirstUpdateProductBody
              /\ Reject(rq, gate) /\ UNCHANGED products
       ELSE IF {"title", "category", "price"} \ DOMAIN data # {}
         THEN /\ Respond(rq, 500, InternalServerError, TRUE, gate.user)
              /\ UNCHANGED products
       ELSE /\ products' = (products \ hit)
                 \cup {[p EXCEPT !.title = data.title, !.category = data.category,
                                 !.price = data.price,
                                 !.owner_id = IF "owner_id" \in DOMAIN data
                                                THEN data.owner_id ELSE @] : p \in hit}
            /\ IF hit = {}
                 THEN Respond(rq, 404, [error |-> "Not found"], TRUE, gate.user)
                 ELSE Respond(rq, 200, [message |-> "Updated"], TRUE, gate.user)
  /\ UNCHANGED <<backend, now, users, cart_items, orders, nextId, inflight, txs, emitted>>

(* PUT /api/products/<int:pid> *)
update_product ==
  /\ backend = "flask"
  /\ \E hdr \in Headers, pid \in ProductIds, data \in UpdateProductBodies :
       LET rq   == Request("PUT /api/products/:pid", hdr, "", pid, data)
           gate == require_auth(hdr, now)
           hit  == {p \in products : p.id = pid /\ p.owner_id = gate.user}
       IN
       IF ~gate.ok
         THEN /\ pid = 1 /\ data = FirstUpdateProductBody
              /\ Reject(rq, gate) /\ UNCHANGED products
       ELSE IF {"title", "category", "price"} \ DOMAIN data # {}
         THEN /\ Respond(rq, 500, InternalServerError, TRUE, gate.user)
              /\ UNCHANGED products
       ELSE /\ products' = (products \ hit)
                 \cup {[p EXCEPT !.title = data.title, !.category = data.category,
                                 !.price = data.price] : p \in hit}
            /\ IF hit = {}
                 THEN Respond(rq, 404, [error |-> "Not found"], TRUE, gate.user)
                 ELSE Respond(rq, 200, [message |-> "Updated"], TRUE, gate.user)
  /\ UNCHANGED <<backend, now, users, cart_items, orders, nextId, inflight, txs, emitted>>

(* Variant: DELETE FROM products WHERE id=%s, without the owner *)
delete_product_AnyOwner ==
  /\ backend = "flask"
  /\ \E hdr \in Headers, pid \in ProductIds :
       LET rq   == Request("DELETE /api/products/:pid", hdr, "", pid, <<>>)
           gate == require_auth(hdr, now)
       IN
       IF ~gate.ok
         THEN /\ pid = 1
              /\ Reject(rq, gate) /\ UNCHANGED products
       ELSE /\ products' = {p \in products : p.id # pid}
            /\ Respond(rq, 200, [message |-> "Deleted"], TRUE, gate.user)
  /\ UNCHANGED <<backend, now, users, cart_items, orders, nextId, inflight, txs, emitted>>

(* DELETE /api/products/<int:pid> *)
delete_product ==
  /\ backend = "flask"
  /\ \E hdr \in Headers, pid \in ProductIds :
       LET rq   == Request("DELETE /api/products/:pid", hdr, "", pid, <<>>)
           gate == require_auth(hdr, now)
       IN
       IF ~gate.ok
         THEN /\ pid = 1
              /\ Reject(rq, gate) /\ UNCHANGED products
       ELSE /\ products' = {p \in products : ~(p.id = pid /\ p.owner_id = gate.user)}
            /\ Respond(rq, 200, [message |-> "Deleted"], TRUE, gate.user)
  /\ UNCHANGED <<backend, now, users, cart_items, orders, nextId, inflight, txs, emitted>>

(* GET /api/my/listings *)
my_listings ==
  /\ backend = "flask"
  /\ \E hdr \in Headers :
       LET rq   == Request("GET /api/my/listings", hdr, "", 0, <<>>)
           gate == require_auth(hdr, now)
           rows == {p \in products : p.owner_id = gate.user}
       IN
       IF ~gate.ok THEN Reject(rq, gate)
       ELSE Respond(rq, 200,
                    [items |-> {[id |-> r.id, title |-> r.title, price |-> r.price,
                                 category |-> r.category] : r \in rows}], TRUE, gate.user)
  /\ UNCHANGED <<backend, now, db, nextId, inflight, txs, emitted>>

(* Variant: the SELECT without WHERE c.user_id=%s *)
get_cart_AllUsers ==
  /\ backend = "flask"
  /\ \E hdr \in Headers :
       LET rq   == Request("GET /api/cart", hdr, "", 0, <<>>)
           gate == require_auth(hdr, now)
           rows == {<<c, p>> \in cart_items \X products : c.product_id = p.id}
       IN
       IF ~gate.ok THEN Reject(rq, gate)
       ELSE Respond(rq, 200,
                    [items |-> {[id |-> r[1].id, title |-> r[2].title, price |-> r[2].price]
                                  : r \in rows}], TRUE, gate.user)
  /\ UNCHANGED <<backend, now, db, nextId, inflight, txs, emitted>>

(* GET /api/cart: cart_items JOIN products *)
get_cart ==
  /\ backend = "flask"
  /\ \E hdr \in Headers :
       LET rq   == Request("GET /api/cart", hdr, "", 0, <<>>)
           gate == require_auth(hdr, now)
           rows == {<<c, p>> \in cart_items \X products :
                      c.product_id = p.id /\ c.user_id = gate.user}
       IN
       IF ~gate.ok THEN Reject(rq, gate)
       ELSE Respond(rq, 200,
                    [items |-> {[id |-> r[1].id, title |-> r[2].title, price |-> r[2].price]
                                  : r \in rows}], TRUE, gate.user)
  /\ UNCHANGED <<backend, now, db, nextId, inflight, txs, emitted>>

(* The cart_items table of the Flask server: its DDL is not part of the
   sources; section 3 of the specification gives a cart item a product_id
   and names no reference from it to a stored listing *)
FlaskInsertCartResult(product_id) == "ok"

(* POST /api/cart *)
add_cart ==
  /\ backend = "flask"
  /\ \E hdr \in Headers, data \in CartBodies :
       LET rq   == Request("POST /api/cart", hdr, "", 0, data)
           gate == require_auth(hdr, now)
       IN
       IF ~gate.ok
         THEN /\ data = FirstCartBody
              /\ Reject(rq, gate)
              /\ UNCHANGED <<cart_items, nextId>>
       ELSE IF "product_id" \notin DOMAIN data
         THEN /\ Respond(rq, 500, InternalServerError, TRUE, gate.user)
              /\ UNCHANGED <<cart_items, nextId>>
       ELSE IF FlaskInsertCartResult(data.product_id) # "ok"
         THEN /\ Respond(rq, 500, InternalServerError, TRUE, gate.user)
              /\ UNCHANGED <<cart_items, nextId>>
       ELSE /\ nextId.cart_items <= MaxCart
            /\ cart_items' = cart_items \cup
                 {[id |-> nextId.cart_items, user_id |-> gate.user,
                   product_id |-> data.product_id,
                   quantity |-> IF "quantity" \in DOMAIN data THEN data.quantity ELSE 1]}
            /\ nextId' = [nextId EXCEPT !.cart_items = @ + 1]
            /\ Respond(rq, 200, [message |-> "Added"], TRUE, gate.user)
  /\ UNCHANGED <<backend, now, users, products, orders, inflight, txs, emitted>>

(* Cart rows an open checkout has deleted and still holds locked *)
Locked == UNION {t.del : t \in txs}

(* Variant: DELETE FROM cart_items WHERE id=%s, without the user *)
remove_cart_AnyUser ==
  /\ backend = "flask"
  /\ \E hdr \in Headers, item_id \in CartIds :
       LET rq   == Request("DELETE /api/cart/:item_id", hdr, "", item_id, <<>>)
           gate == require_auth(hdr, now)
           hit  == {c \in cart_items : c.id = item_id}
       IN
       IF ~gate.ok
         THEN /\ item_id = 1
              /\ Reject(rq, gate) /\ UNCHANGED cart_items
       ELSE /\ {c.id : c \in hit} \cap Locked = {}
            /\ cart_items' = cart_items \ hit
            /\ Respond(rq, 200, [message |-> "Removed"], TRUE, gate.user)
  /\ UNCHANGED <<backend, now, users, products, orders, nextId, inflight, txs, emitted>>

(* DELETE /api/cart/<int:item_id> *)
remove_cart ==
  /\ backend = "flask"
  /\ \E hdr \in Headers, item_id \in CartIds :
       LET rq   == Request("DELETE /api/cart/:item_id", hdr, "", item_id, <<>>)
           gate == require_auth(hdr, now)
           hit  == {c \in cart_items : c.id = item_id /\ c.user_id = gate.user}
       IN
       IF ~gate.ok
         THEN /\ item_id = 1
              /\ Reject(rq, gate) /\ UNCHANGED cart_items
       ELSE /\ {c.id : c \in hit} \cap Locked = {}
            /\ cart_items' = cart_items \ hit
            /\ Respond(rq, 200, [message |-> "Removed"], TRUE, gate.user)
  /\ UNCHANGED <<backend, now, users, products, orders, nextId, inflight, txs, emitted>>

(* The rows INSERT INTO orders ... SELECT ... FROM cart_items makes of the
   cart rows, numbered from first in the order of the cart ids.  The ids are
   given when the transaction commits, so that a rolled back checkout uses
   none. *)
(* Variant: SELECT user_id, id: the cart row's id is copied as the product *)
RECURSIVE OrderRows_CartId(_, _, _)
OrderRows_CartId(rows, first, t) ==
  IF rows = {} THEN {}
  ELSE LET c == CHOOSE r \in rows : \A o \in rows : r.id <= o.id IN
       {[id |-> first, user_id |-> c.user_id, product_id |-> c.id,
         purchased_at |-> t]} \cup OrderRows_CartId(rows \ {c}, first + 1, t)

RECURSIVE OrderRows(_, _, _)
OrderRows(rows, first, t) ==
  IF rows = {} THEN {}
  ELSE LET c == CHOOSE r \in rows : \A o \in rows : r.id <= o.id IN
       {[id |-> first, user_id |-> c.user_id, product_id |-> c.product_id,
         purchased_at |-> t]} \cup OrderRows(rows \ {c}, first + 1, t)

(* POST /api/checkout: the auth gate and, in a new transaction, the first
   statement (copy the cart to orders) *)
checkout ==
  /\ backend = "flask"
  /\ \E hdr \in Headers :
       LET rq   == Request("POST /api/checkout", hdr, "", 0, <<>>)
           gate == require_auth(hdr, now)
           rows == {c \in cart_items : c.user_id = gate.user}
       IN
       IF ~gate.ok
         THEN /\ Reject(rq, gate)
              /\ UNCHANGED txs
       ELSE /\ Cardinality(txs) < MaxTx
            /\ \A t \in txs : t.rq # rq \/ t.user # gate.user
            /\ txs' = txs \cup {[rq |-> rq, user |-> gate.user, pc |-> "copied",
                                 at |-> now, ins |-> rows, del |-> {}]}
            /\ UNCHANGED <<req, resp>>
  /\ UNCHANGED <<backend, now, db, nextId, inflight, emitted>>

(* POST /api/checkout: the second statement (clear the cart) *)
checkout_delete ==
  /\ \E t \in txs :
       LET rows == {c.id : c \in {r \in cart_items : r.user_id = t.user}} IN
       /\ t.pc = "copied"
       /\ rows \cap Locked = {}
       /\ txs' = (txs \ {t}) \cup {[t EXCEPT !.pc = "cleared", !.del = rows]}
  /\ UNCHANGED <<backend, now, db, nextId, inflight, emitted, req, resp>>

(* Variant: the checkout replaces the orders of the caller by the new ones *)
checkout_commit_ReplacesOrders ==
  /\ \E t \in txs :
       /\ t.pc = "cleared"
       /\ orders' = {o \in orders : o.user_id # t.user}
                      \cup OrderRows(t.ins, nextId.orders, t.at)
       /\ nextId' = [nextId EXCEPT !.orders = @ + Cardinality(t.ins)]
       /\ cart_items' = {c \in cart_items : c.id \notin t.del}
       /\ txs' = txs \ {t}
       /\ Respond(t.rq, 200, [message |-> "Order placed"], TRUE, t.user)
  /\ UNCHANGED <<backend, now, users, products, inflight, emitted>>

(* POST /api/checkout: leaving the with block commits the transaction *)
checkout_commit ==
  /\ \E t \in txs :
       /\ t.pc = "cleared"
       /\ orders' = orders \cup OrderRows(t.ins, nextId.orders, t.at)
       /\ nextId' = [nextId EXCEPT !.orders = @ + Cardinality(t.ins)]
       /\ cart_items' = {c \in cart_items : c.id \notin t.del}
       /\ txs' = txs \ {t}
       /\ Respond(t.rq, 200, [message |-> "Order placed"], TRUE, t.user)
  /\ UNCHANGED <<backend, now, users, products, inflight, emitted>>

(* Variant: an autocommit connection; a failure after the first statement
   leaves the copied orders behind *)
checkout_fail_Autocommit ==
  /\ \E t \in txs :
       /\ txs' = txs \ {t}
       /\ orders' = orders \cup OrderRows(t.ins, nextId.orders, t.at)
       /\ nextId' = [nextId EXCEPT !.orders = @ + Cardinality(t.ins)]
       /\ Respond(t.rq, 500, InternalServerError, TRUE, t.user)
  /\ UNCHANGED <<backend, now, users, products, cart_items, inflight, emitted>>

(* POST /api/checkout: a statement or the commit fails; the with block rolls
   the transaction back *)
checkout_fail ==
  /\ \E t \in txs :
       /\ txs' = txs \ {t}
       /\ Respond(t.rq, 500, InternalServerError, TRUE, t.user)
  /\ UNCHANGED <<backend, now, db, nextId, inflight, emitted>>

(* GET /api/orders: orders JOIN products *)
orders_view ==
  /\ backend = "flask"
  /\ \E hdr \in Headers :
       LET rq   == Request("GET /api/orders", hdr, "", 0, <<>>)
           gate == require_auth(hdr, now)
           rows == {<<o, p>> \in orders \X products :
                      o.product_id = p.id /\ o.user_id = gate.user}
       IN
       IF ~gate.ok THEN Reject(rq, gate)
       ELSE Respond(rq, 200,
                    [items |-> {[id |-> r[1].id, title |-> r[2].title, price |-> r[2].price,
                                 purchased_at |-> r[1].purchased_at] : r \in rows}],
                    TRUE, gate.user)
  /\ UNCHANGED <<backend, now, db, nextId, inflight, txs, emitted>>

----------------------------------------------------------------------------
(* Time passes *)
Tick ==
  /\ \E t \in Instants : t > now /\ now' = t
  /\ UNCHANGED <<backend, db, nextId, inflight, txs, emitted, req, resp>>

(* null in the client *)
JsNull == <<>>

(* s.length of the strings the forms are filled with *)
length(s) ==
  CASE s \in {"ana", "bob", "zed"} -> 3
    [] s \in {"secret1", "hunter2", "a@x.com", "b@x.com"} -> 7
    [] OTHER -> 0

(* emailRegex.test(s): text, an @, text, a dot, text *)
emailRegex(s) == s \in {"a@x.com", "b@x.com"}

validateSignup(form) ==
  /\ Truthy(form, "email") /\ emailRegex(form.email)
  /\ Truthy(form, "username") /\ length(form.username) >= 3
  /\ Truthy(form, "password") /\ length(form.password) >= 6

validateLogin(form) ==
  /\ Truthy(form, "email") /\ emailRegex(form.email)
  /\ Truthy(form, "password")

(* The React client.  useAuth keeps the token and the user in the component
   state and in localStorage; toast is the notification shown last. *)
NoSession == [token |-> JsNull, user |-> JsNull, storedToken |-> JsNull,
              storedUser |-> JsNull, toast |-> JsNull]

(* useAuth.saveAuth *)
saveAuth(tk, usr) ==
  [client EXCEPT !.token = tk, !.user = usr, !.storedToken = tk, !.storedUser = usr]

(* res.ok of fetch *)
ResOk(r) == r.status >= 200 /\ r.status <= 299

(* AuthScreen.onSubmit, shown while the client has no token: the form is
   validated, sent to the Flask server, and the answer handled *)
onSubmit ==
  /\ client.token = JsNull
  /\ \E mode \in {"signup", "login"} :
       IF mode = "signup"
         THEN /\ signup
              /\ validateSignup(req'.data)
              /\ client' = [client EXCEPT !.toast =
                              IF ResOk(resp')
                                THEN [message |-> "Signup successful, please login."]
                                ELSE resp'.body]
         ELSE /\ login
              /\ validateLogin(req'.data)
              /\ client' = IF ResOk(resp')
                             THEN saveAuth(resp'.body.token, resp'.body.user)
                             ELSE [client EXCEPT !.toast = resp'.body]

(* useAuth.logout, from the Logout button of the header *)
logout ==
  /\ client.token # JsNull
  /\ client' = [client EXCEPT !.token = JsNull, !.user = JsNull,
                              !.storedToken = JsNull, !.storedUser = JsNull]
  /\ UNCHANGED <<backend, now, db, nextId, inflight, txs, emitted, req, resp>>

(* The page is loaded again: useAuth initialises its state from localStorage *)
reload ==
  /\ client' = [client EXCEPT !.token = client.storedToken, !.user = client.storedUser,
                              !.toast = JsNull]
  /\ UNCHANGED <<backend, now, db, nextId, inflight, txs, emitted, req, resp>>

(* BrowsePage.load, shown while the client has a token: GET /api/products
   with the token; an error answer becomes a toast *)
load ==
  /\ client.token # JsNull
  /\ list_products
  /\ req'.cred = Cred(<<"Bearer", client.token>>, now)
  /\ client' = IF ResOk(resp') THEN client ELSE [client EXCEPT !.toast = resp'.body]

(* The plain-DOM client: the token in localStorage, the number of newProduct
   events its socket handler has run for, the product ids the grid shows
   (null before the first answer) and the error logged last *)
NoPage == [token |-> JsNull, seen |-> 0, grid |-> JsNull, error |-> JsNull]

getToken == page.token

(* saveToken(token); its caller, the login page, is not among the sources:
   the argument is a token a login of the Express server issues now *)
saveToken ==
  /\ backend = "express"
  /\ \E tk \in {ExpressIssue(u, now) : u \in users} :
       page' = [page EXCEPT !.token = tk]
  /\ UNCHANGED <<backend, now, db, nextId, inflight, txs, emitted, req, resp>>

(* api(endpoint, method, body, auth): the Authorization header of the request *)
ApiHeaders(auth) ==
  IF auth /\ getToken # JsNull THEN <<"Bearer", getToken>> ELSE <<>>

(* loadProducts(query), run on DOMContentLoaded and on a click of the search
   button: api("/products?q=...") with auth left at its default, false; the
   answer is rendered, an error answer is logged.  The q filter of the
   request is not part of GetApiProducts. *)
loadProducts ==
  /\ GetApiProducts
  /\ req'.cred = Cred(ApiHeaders(FALSE), now)
  /\ req'.param = ""
  /\ page' = IF ResOk(resp')
               THEN [page EXCEPT !.grid = {p.id : p \in resp'.body.items}]
               ELSE [page EXCEPT !.error = [message |-> resp'.body.error]]

(* socket.on("newProduct"): the page is connected from the start, and the
   handler runs once for each event emitted *)
onNewProduct ==
  /\ page.seen < emitted
  /\ GetApiProducts
  /\ req'.cred = Cred(ApiHeaders(FALSE), now)
  /\ req'.param = ""
  /\ page' = IF ResOk(resp')
               THEN [page EXCEPT !.seen = @ + 1, !.grid = {p.id : p \in resp'.body.items}]
               ELSE [page EXCEPT !.seen = @ + 1, !.error = [message |-> resp'.body.error]]

Init ==
  /\ backend \in {"express", "flask"}
  /\ now = 0
  /\ users = {} /\ products = {} /\ cart_items = {} /\ orders = {}
  /\ nextId = [users |-> 1, products |-> 1, cart_items |-> 1, orders |-> 1]
  /\ inflight = <<>>
  /\ txs = {}
  /\ emitted = 0
  /\ req = NoReq
  /\ resp = NoResp
  /\ client = NoSession
  /\ page = NoPage

(* Accounts and sessions of both servers, with the clock *)
Next ==
  \/ PostApiRegister /\ UNCHANGED <<client, page>>
  \/ RegisterInsert /\ UNCHANGED <<client, page>>
  \/ PostApiLogin /\ UNCHANGED <<client, page>>
  \/ GetApiUsersUserId /\ UNCHANGED <<client, page>>
  \/ PutApiUsersUserId /\ UNCHANGED <<client, page>>
  \/ signup /\ UNCHANGED <<client, page>>
  \/ login /\ UNCHANGED <<client, page>>
  \/ me /\ UNCHANGED <<client, page>>
  \/ update_me /\ UNCHANGED <<client, page>>
  \/ Tick /\ UNCHANGED <<client, page>>

Spec == Init /\ [][Next]_vars

(* Listings of both servers: accounts are only created, the clock stands *)
NextListings ==
  \/ PostApiRegister /\ UNCHANGED <<client, page>>
  \/ RegisterInsert /\ UNCHANGED <<client, page>>
  \/ GetApiProducts /\ UNCHANGED <<client, page>>
  \/ PostApiProducts /\ UNCHANGED <<client, page>>
  \/ signup /\ UNCHANGED <<client, page>>
  \/ list_products /\ UNCHANGED <<client, page>>
  \/ create_product /\ UNCHANGED <<client, page>>
  \/ update_product /\ UNCHANGED <<client, page>>
  \/ delete_product /\ UNCHANGED <<client, page>>
  \/ my_listings /\ UNCHANGED <<client, page>>

SpecListings == Init /\ [][NextListings]_vars

(* Cart and checkout (Flask): one kind of listing, the clock stands *)
PlainCred == req.cred.state \in {"valid", "missing"} /\ req.cred.scheme \in {"", "Bearer"}

NextCart ==
  \/ signup /\ users' # users /\ "username" \in DOMAIN req'.data
            /\ (users = {} => req'.data.email = "a@x.com") /\ UNCHANGED <<client, page>>
  \/ create_product /\ req'.data = FirstProductBody /\ req'.cred.state = "valid" /\ UNCHANGED <<client, page>>
  \/ get_cart /\ PlainCred' /\ UNCHANGED <<client, page>>
  \/ add_cart /\ "quantity" \notin DOMAIN req'.data /\ PlainCred' /\ UNCHANGED <<client, page>>
  \/ remove_cart /\ PlainCred' /\ UNCHANGED <<client, page>>
  \/ checkout /\ PlainCred' /\ UNCHANGED <<client, page>>
  \/ checkout_delete /\ UNCHANGED <<client, page>>
  \/ checkout_commit /\ UNCHANGED <<client, page>>
  \/ checkout_fail /\ UNCHANGED <<client, page>>
  \/ orders_view /\ PlainCred' /\ UNCHANGED <<client, page>>
  \/ my_listings /\ PlainCred' /\ UNCHANGED <<client, page>>

SpecCart == Init /\ [][NextCart]_vars

(* Every route of both servers, with one account and one request body a route *)
FirstBodies ==
  {<<>>, [email |-> "a@x.com", username |-> "ana", password |-> "secret1"],
   [email |-> "a@x.com", password |-> "secret1"], FirstProfileBody, FirstProductBody,
   FirstUpdateProductBody, FirstCartBody}

Narrow ==
  /\ nextId.users <= 2
  /\ nextId.cart_items <= 2
  /\ req.data \in FirstBodies
  /\ req.param \in {"", "1"}
  /\ req.id \in {0, 1}
  /\ \A i \in 1..Len(inflight) : inflight[i].rq.data \in FirstBodies
  /\ now \in {0, TTL}

NextAll ==
  \/ PostApiRegister /\ Narrow' /\ UNCHANGED <<client, page>>
  \/ RegisterInsert /\ Narrow' /\ UNCHANGED <<client, page>>
  \/ PostApiLogin /\ Narrow' /\ UNCHANGED <<client, page>>
  \/ GetApiProducts /\ Narrow' /\ UNCHANGED <<client, page>>
  \/ PostApiProducts /\ Narrow' /\ UNCHANGED <<client, page>>
  \/ GetApiUsersUserId /\ Narrow' /\ UNCHANGED <<client, page>>
  \/ PutApiUsersUserId /\ Narrow' /\ UNCHANGED <<client, page>>
  \/ signup /\ Narrow' /\ UNCHANGED <<client, page>>
  \/ login /\ Narrow' /\ UNCHANGED <<client, page>>
  \/ me /\ Narrow' /\ UNCHANGED <<client, page>>
  \/ update_me /\ Narrow' /\ UNCHANGED <<client, page>>
  \/ list_products /\ Narrow' /\ UNCHANGED <<client, page>>
  \/ create_product /\ Narrow' /\ UNCHANGED <<client, page>>
  \/ update_product /\ Narrow' /\ UNCHANGED <<client, page>>
  \/ delete_product /\ Narrow' /\ UNCHANGED <<client, page>>
  \/ my_listings /\ Narrow' /\ UNCHANGED <<client, page>>
  \/ get_cart /\ Narrow' /\ UNCHANGED <<client, page>>
  \/ add_cart /\ Narrow' /\ UNCHANGED <<client, page>>
  \/ remove_cart /\ Narrow' /\ UNCHANGED <<client, page>>
  \/ checkout /\ Narrow' /\ UNCHANGED <<client, page>>
  \/ checkout_delete /\ Narrow' /\ UNCHANGED <<client, page>>
  \/ checkout_commit /\ Narrow' /\ UNCHANGED <<client, page>>
  \/ checkout_fail /\ Narrow' /\ UNCHANGED <<client, page>>
  \/ orders_view /\ Narrow' /\ UNCHANGED <<client, page>>
  \/ Tick /\ Narrow' /\ UNCHANGED <<client, page>>

SpecAll == Init /\ [][NextAll]_vars

(* The React client against the Flask server, with the clock *)
NextClient ==
  \/ onSubmit /\ UNCHANGED page
  \/ logout /\ UNCHANGED page
  \/ reload /\ UNCHANGED page
  \/ load /\ UNCHANGED page
  \/ Tick /\ UNCHANGED <<client, page>>

SpecClient == Init /\ [][NextClient]_vars

(* The cart of the Flask server with every request body, the clock stands *)
NextCartItems ==
  \/ signup /\ users' # users /\ "username" \in DOMAIN req'.data
            /\ (users = {} => req'.data.email = "a@x.com") /\ UNCHANGED <<client, page>>
  \/ add_cart /\ PlainCred' /\ UNCHANGED <<client, page>>
  \/ remove_cart /\ PlainCred' /\ UNCHANGED <<client, page>>
  \/ get_cart /\ PlainCred' /\ UNCHANGED <<client, page>>

SpecCartItems == Init /\ [][NextCartItems]_vars

(* The plain-DOM client against the Express server, with the clock; one
   account is registered, listings are added by any caller *)
NextPage ==
  \/ PostApiRegister /\ inflight' # inflight /\ users = {}
                     /\ (\A i \in 1..Len(inflight') : inflight'[i].rq.data \in FirstBodies)
                     /\ UNCHANGED <<client, page>>
  \/ RegisterInsert /\ UNCHANGED <<client, page>>
  \/ PostApiProducts /\ PlainCred' /\ UNCHANGED <<client, page>>
  \/ saveToken /\ UNCHANGED client
  \/ loadProducts /\ UNCHANGED client
  \/ onNewProduct /\ UNCHANGED client
  \/ Tick /\ UNCHANGED <<client, page>>

SpecPage == Init /\ [][NextPage]_vars

(* The event loop runs the socket handler for every event delivered *)
SpecPageLive == SpecPage /\ WF_vars(onNewProduct /\ UNCHANGED client)

----------------------------------------------------------------------------
(* Properties *)

GatedRoutes ==
  {"GET /api/products", "POST /api/products", "GET /api/users/:userId",
   "PUT /api/users/:userId", "GET /api/users/me", "PUT /api/users/me",
   "PUT /api/products/:pid", "DELETE /api/products/:pid", "GET /api/my/listings",
   "GET /api/cart", "POST /api/cart", "DELETE /api/cart/:item_id",
   "POST /api/checkout", "GET /api/orders"}

BadCred(cred) == cred.state \in {"missing", "malformed", "badsignature", "expired"}

(* C1: a request to an auth-required route of either server whose bearer
   token is missing, malformed, wrongly signed or expired is answered 401,
   its handler is not invoked and no table changes in that step. *)
C1_BadTokenIsRejected ==
  [][(req'.route \in GatedRoutes /\ BadCred(req'.cred))
       => (resp'.status = 401 /\ ~resp'.invoked /\ db' = db)]_vars

(* C1 witness: an expired token of an existing user has been refused at
   checkout while that user's cart holds an item. *)
C1_Witness ==
  /\ req.route = "POST /api/checkout"
  /\ req.cred.state = "expired"
  /\ resp.status = 401
  /\ \E c \in cart_items : c.user_id = req.cred.sub

ListingMutations == {"PUT /api/products/:pid", "DELETE /api/products/:pid"}

(* C2: a listing is changed or removed only by an update or delete request
   for that listing whose valid token names the listing's owner; after any
   other request the listing is present with every field unchanged. *)
C2_OnlyOwnerMutatesListing ==
  [][\A p \in products :
       p \in products'
         \/ (/\ req'.route \in ListingMutations
             /\ req'.id = p.id
             /\ req'.cred.state = "valid"
             /\ req'.cred.sub = p.owner_id)]_vars

(* C2 witness: a delete of a listing by a valid token of another user has been
   answered and the listing is still there. *)
C2_Witness ==
  /\ req.route = "DELETE /api/products/:pid"
  /\ req.cred.state = "valid" /\ req.cred.scheme = "Bearer"
  /\ \E p \in products : p.id = req.id /\ p.owner_id # req.cred.sub

(* C3, as claimed: an update (with a complete body) or a delete of a listing
   by a valid token whose user does not own it, or of a listing that does not
   exist, is answered 404. *)
C3_NonOwnerGets404 ==
  [][(/\ backend = "flask"
      /\ req'.route \in ListingMutations
      /\ req'.cred.state = "valid" /\ req'.cred.scheme = "Bearer"
      /\ (req'.route = "PUT /api/products/:pid"
            => {"title", "category", "price"} \subseteq DOMAIN req'.data)
      /\ ~\E p \in products : p.id = req'.id /\ p.owner_id = req'.cred.sub)
       => resp'.status = 404]_vars

Mine(u) == {c \in cart_items : c.user_id = u}

(* C4: when a checkout commits whose copy statement read a cart of n > 0
   items of the caller, the caller has exactly n more orders, as many for each
   product as the cart held items of it, none of the n items is in the cart
   any more, the caller's cart is empty if it held exactly these items, and
   the carts and orders of the other users are unchanged. *)
C4_CheckoutMovesCart ==
  [][\A t \in txs :
       (txs' = txs \ {t} /\ resp'.status = 200 /\ t.ins # {})
         => LET new == orders' \ orders IN
            /\ orders \subseteq orders'
            /\ Cardinality(new) = Cardinality(t.ins)
            /\ \A o \in new : o.user_id = t.user
            /\ \A pid \in {c.product_id : c \in t.ins} :
                 Cardinality({o \in new : o.product_id = pid})
                   = Cardinality({c \in t.ins : c.product_id = pid})
            /\ \A c \in t.ins : c \notin cart_items'
            /\ Mine(t.user) = t.ins => {c \in cart_items' : c.user_id = t.user} = {}
            /\ {c \in cart_items' : c.user_id # t.user} = {c \in cart_items : c.user_id # t.user}]_vars

(* C4 witness: a checkout of a cart of two items of a listed product has
   committed: the caller's cart is empty and two orders are the caller's. *)
C4_Witness ==
  /\ req.route = "POST /api/checkout" /\ resp.status = 200
  /\ Mine(resp.user) = {}
  /\ \E o1, o2 \in orders :
       /\ o1 # o2 /\ o1.user_id = resp.user /\ o2.user_id = resp.user
       /\ \E p \in products : p.id = o1.product_id

(* C5: a checkout changes the tables only when it commits, and then with the
   effect of both statements at once: every step of a checkout that is not
   its commit, its failure included, leaves users, products, cart_items and
   orders as they were; the commit adds an order for every cart row the first
   statement copied and removes every cart row the second statement deleted. *)
C5_CheckoutAllOrNothing ==
  [][txs' # txs
       => \/ db' = db
          \/ \E t \in txs :
               /\ txs' = txs \ {t} /\ resp'.status = 200
               /\ Cardinality(orders' \ orders) = Cardinality(t.ins)
               /\ \A c \in t.ins : \E o \in orders' \ orders :
                    o.user_id = c.user_id /\ o.product_id = c.product_id
               /\ \A c \in cart_items' : c.id \notin t.del]_vars

(* C5 witness: a checkout that had copied a cart of at least one item has
   failed, and the item is in the cart and not in the orders. *)
C5_Witness ==
  /\ req.route = "POST /api/checkout" /\ resp.status = 500
  /\ Mine(resp.user) # {}
  /\ orders = {}

LoginRoutes == {"POST /api/login", "POST /api/auth/login"}

Login(data, t) == IF backend = "express" THEN ExpressLogin(data, t) ELSE FlaskLogin(data, t)

(* C6: for every user row a signup has created with a password, as long as
   the row holds its email, every login with that email and password is
   answered 200 with a token that the auth gate of the same server accepts,
   yielding the id of that row. *)
C6_SignupLoginRoundTrip ==
  \A u \in users : \A pw \in Passwords :
    u.password = bcrypt_hash(pw)
      => \A r \in Login([email |-> u.email, password |-> pw], now) :
           /\ r.status = 200
           /\ AuthGate(<<"Bearer", r.body.token>>, now).ok
           /\ AuthGate(<<"Bearer", r.body.token>>, now).user = u.id

(* C6 witness: after the signup of a second user, a login with the email and
   password of that signup has been answered 200 with a token naming row 2. *)
C6_Witness ==
  /\ req.route \in LoginRoutes /\ resp.status = 200
  /\ Subject(resp.body.token) = 2
  /\ \E u \in users : u.id = 2 /\ u.email = req.data.email
                        /\ u.password = bcrypt_hash(req.data.password)

(* C7: the token a login issues to user uid at time t0 expires at t0 plus the
   lifetime of the server (1 hour Express, 8 hours Flask); the gate accepts it
   as uid at every time from t0 before the expiry and answers 401 at every
   time from the expiry on. *)
C7_TokenLifetime ==
  [][(/\ req'.route \in LoginRoutes /\ resp'.status = 200
      /\ now' = now /\ <<req, resp>>' # <<req, resp>>)
       => LET tk  == resp'.body.token
              hdr == <<"Bearer", tk>>
              ttl == IF backend = "express" THEN 1 ELSE 8
          IN
          /\ tk.claims.exp = now + ttl
          /\ \E u \in users : u.email = req'.data.email /\ u.id = Subject(tk)
          /\ \A t \in now..(now + ttl + MaxLate) :
               IF t < now + ttl
                 THEN AuthGate(hdr, t).ok /\ AuthGate(hdr, t).user = Subject(tk)
                 ELSE ~AuthGate(hdr, t).ok /\ AuthGate(hdr, t).status = 401]_vars

(* C7 witness: the lifetime of the token of the last login has elapsed and
   the gate refuses the token now. *)
C7_Witness ==
  /\ req.route \in LoginRoutes /\ resp.status = 200
  /\ resp.body.token.claims.exp <= now
  /\ AuthGate(<<"Bearer", resp.body.token>>, now).status = 401

UserIdRoutes == {"GET /api/users/:userId", "PUT /api/users/:userId"}

(* C8: a request to GET or PUT /api/users/:userId with a valid token whose id,
   written as a string, differs from the path userId is answered 403 with a
   body that carries an error only, and leaves the users table unchanged. *)
C8_OtherUserIsForbidden ==
  [][(/\ req'.route \in UserIdRoutes
      /\ req'.cred.state = "valid"
      /\ toString(req'.cred.sub) # req'.param)
       => (/\ resp'.status = 403
           /\ DOMAIN resp'.body = {"error"}
           /\ users' = users)]_vars

(* C8 witness: user 1 has asked to update the profile of the existing user 2
   and was answered 403. *)
C8_Witness ==
  /\ req.route = "PUT /api/users/:userId"
  /\ req.cred.state = "valid" /\ req.cred.sub = 1 /\ req.param = "2"
  /\ \E u \in users : u.id = 2
  /\ resp.status = 403

Hashes == {u.password : u \in users}

StringKeys == {"error", "message", "email", "username", "html", "title", "category",
               "password", "password_hash"}

(* The strings a record carries at its top level *)
Strings(r) == {r[k] : k \in DOMAIN r \cap StringKeys}

(* Every string of a response body: its own, those of its user, of its items
   and of the claims of its token *)
BodyStrings(body) ==
  IF body = <<>> THEN {}
  ELSE Strings(body)
         \cup (IF "user" \in DOMAIN body THEN Strings(body.user) ELSE {})
         \cup (IF "token" \in DOMAIN body THEN Strings(body.token.claims) ELSE {})
         \cup (IF "items" \in DOMAIN body THEN UNION {Strings(i) : i \in body.items} ELSE {})

(* C9: no response body carries the stored password hash of a user, in any
   of its fields, in the user or the items it lists or in the claims of the
   token it returns. *)
C9_NoHashInResponse == BodyStrings(resp.body) \cap Hashes = {}

(* C9 witness: GET /api/users/:userId has returned the row of a user whose
   password hash is stored. *)
C9_Witness ==
  /\ req.route = "GET /api/users/:userId" /\ resp.status = 200
  /\ \E u \in users : u.id = resp.body.user.id /\ u.password = bcrypt_hash("secret1")

UniqueEmails == \A u1, u2 \in users : u1.id # u2.id => u1.email # u2.email

EmailRoutes == {"POST /api/register", "POST /api/auth/signup",
                "PUT /api/users/:userId", "PUT /api/users/me"}

(* The answered request would give a user an email that another user holds *)
DuplicateEmail(rq) ==
  /\ rq.route \in EmailRoutes
  /\ rq.route \in {"PUT /api/users/:userId", "PUT /api/users/me"} => rq.cred.state = "valid"
  /\ \E u \in users : u.email = Get(rq.data, "email") /\ u.id # rq.cred.sub

(* C10: no two user rows ever hold the same email, and a signup or a profile
   update that would give a user the email another user holds, also one
   that was in flight while the email was taken, is refused (no 200 or 201)
   and leaves the users table as it was. *)
C10_EmailsAreUnique ==
  [][/\ UniqueEmails'
     /\ (<<req, resp>>' # <<req, resp>> /\ DuplicateEmail(req'))
          => (users' = users /\ resp'.status \notin {200, 201})]_vars

(* C10 witness: a registration that was in flight while another request took
   its email has been answered 409, and a second user exists. *)
C10_Witness ==
  /\ req.route = "POST /api/register" /\ resp.status = 409
  /\ Cardinality(users) = 2
  /\ \E u \in users : u.email = req.data.email /\ u.username = "zed"

SignupRoutes == {"POST /api/register", "POST /api/auth/signup"}

(* C11, as claimed: unless the server fails internally (500), a signup that
   creates a user is answered 201, a signup without email, username or
   password is answered 400 and a signup with an email that is registered is
   answered 409, and in the last two cases no user row is created. *)
C11_SignupStatusCodes ==
  [][(/\ req'.route \in SignupRoutes
      /\ <<req, resp>>' # <<req, resp>>
      /\ resp'.status # 500)
       => LET data    == req'.data
              missing == ~Truthy(data, "email") \/ ~Truthy(data, "username")
                           \/ ~Truthy(data, "password")
          IN
          /\ users' # users => resp'.status = 201
          /\ missing => (resp'.status = 400 /\ users' = users)
          /\ (~missing /\ EmailTaken(data.email, 0))
               => (resp'.status = 409 /\ users' = users)]_vars

(* C12: a login with an email no user holds and a login with the email of a
   user and a password that is not that user's are both answered 401, with
   the same body. *)
C12_LoginDoesNotRevealEmail ==
  \A d1, d2 \in {d \in LoginBodies : "password" \in DOMAIN d} :
    (/\ ~\E u \in users : u.email = d1.email
     /\ \E u \in users : u.email = d2.email
     /\ \A u \in users : u.email = d2.email => u.password # bcrypt_hash(d2.password))
      => \A r1 \in Login(d1, now), r2 \in Login(d2, now) :
           r1.status = 401 /\ r2.status = 401 /\ r1.body = r2.body

(* C12 witness: a login with a registered email and a wrong password has been
   answered 401 while another email is not registered. *)
C12_Witness ==
  /\ req.route \in LoginRoutes /\ resp.status = 401
  /\ "password" \in DOMAIN req.data
  /\ \E u \in users : u.email = req.data.email /\ u.password # bcrypt_hash(req.data.password)
  /\ \E e \in Emails : ~\E u \in users : u.email = e

(* C13: no step changes the owner id of a listing: a listing that is stored
   before and after a step has the same owner id in both states. *)
C13_OwnerIsImmutable ==
  [][\A p \in products : \A q \in products' : q.id = p.id => q.owner_id = p.owner_id]_vars

(* C13 witness: the owner has updated a listing with a body that names
   another owner id; the update took effect and the listing is still the
   caller's. *)
C13_Witness ==
  /\ req.route = "PUT /api/products/:pid" /\ resp.status = 200
  /\ "owner_id" \in DOMAIN req.data
  /\ \E p \in products :
       /\ p.id = req.id /\ p.title = req.data.title
       /\ p.owner_id = req.cred.sub /\ p.owner_id # req.data.owner_id

(* C14: a listing that a step adds is added by a create request with a valid
   token, and its owner id is the user id of that token, whatever owner_id or
   user_id the body carries. *)
C14_OwnerIsTheCaller ==
  [][\A q \in products' :
       (~\E p \in products : p.id = q.id)
         => (/\ req'.route = "POST /api/products"
             /\ req'.cred.state = "valid"
             /\ q.owner_id = req'.cred.sub)]_vars

(* C14 witness: a create request of user 1 whose body names user 2 as owner
   has stored a listing owned by user 1. *)
C14_Witness ==
  /\ req.route = "POST /api/products" /\ resp.status \in {200, 201}
  /\ req.cred.sub = 1
  /\ "owner_id" \in DOMAIN req.data /\ req.data.owner_id = 2 /\ req.data.user_id = 2
  /\ \E p \in products : p.owner_id = 1

ListingWrites == {"POST /api/products", "PUT /api/products/:pid"}

(* C15, as claimed: every stored listing has a price above zero, and a create
   or update request with a valid token and a price of zero or less is
   refused (no 200 or 201) and leaves the products table as it was. *)
C15_PriceIsPositive ==
  [][/\ \A p \in products' : p.price > 0
     /\ (/\ req'.route \in ListingWrites
         /\ <<req, resp>>' # <<req, resp>>
         /\ req'.cred.state = "valid"
         /\ "price" \in DOMAIN req'.data /\ req'.data.price <= 0)
          => (products' = products /\ resp'.status \notin {200, 201})]_vars

OwnerReads == {"GET /api/my/listings", "GET /api/cart", "GET /api/orders"}

(* The ids of the rows of this table that a response to an owner-scoped read
   lists *)
Listed == {i.id : i \in resp.body.items}

Listable(rows) == {r.id : r \in {x \in rows : \E p \in products : p.id = x.product_id}}

(* C16, as amended: an answered owner-scoped read lists rows of the caller
   only: my listings lists exactly the listings the caller owns, cart and
   orders list exactly the caller's cart items and orders whose product is
   a stored listing. *)
C16_ReadsAreOwnerScoped ==
  (req.route \in OwnerReads /\ resp.status = 200)
    => LET caller == req.cred.sub IN
       /\ req.cred.state = "valid"
       /\ req.route = "GET /api/my/listings"
            => Listed = {p.id : p \in {x \in products : x.owner_id = caller}}
       /\ req.route = "GET /api/cart"
            => /\ Listed \subseteq {c.id : c \in Mine(caller)}
               /\ Listed = Listable(Mine(caller))
       /\ req.route = "GET /api/orders"
            => /\ Listed \subseteq {o.id : o \in {x \in orders : x.user_id = caller}}
               /\ Listed = Listable({x \in orders : x.user_id = caller})

(* C16 witness: the cart of a user has been listed with an item in it while
   another user has a cart item too. *)
C16_Witness ==
  /\ req.route = "GET /api/cart" /\ resp.status = 200
  /\ Listed # {}
  /\ \E c \in cart_items : c.user_id # req.cred.sub

(* C16, as claimed: cart and orders list exactly the caller's rows *)
C16_ReadsListAllRowsOfCaller ==
  (req.route \in OwnerReads /\ resp.status = 200)
    => LET caller == req.cred.sub IN
       /\ req.route = "GET /api/my/listings"
            => Listed = {p.id : p \in {x \in products : x.owner_id = caller}}
       /\ req.route = "GET /api/cart" => Listed = {c.id : c \in Mine(caller)}
       /\ req.route = "GET /api/orders"
            => Listed = {o.id : o \in {x \in orders : x.user_id = caller}}

(* C17: an answered request to delete a cart item removes the item of that
   id if it is the caller's and nothing else: naming an item of another user,
   or no item, it leaves every cart as it was. *)
C17_RemoveCartIsOwnerScoped ==
  [][(/\ req'.route = "DELETE /api/cart/:item_id"
      /\ <<req, resp>>' # <<req, resp>>
      /\ req'.cred.state = "valid")
       => cart_items' = cart_items \ {c \in cart_items :
                                        c.id = req'.id /\ c.user_id = req'.cred.sub}]_vars

(* C17 witness: a user has asked to delete the cart item of another user, was
   answered, and the item is still in that user's cart. *)
C17_Witness ==
  /\ req.route = "DELETE /api/cart/:item_id" /\ resp.status = 200
  /\ req.cred.state = "valid"
  /\ \E c \in cart_items : c.id = req.id /\ c.user_id # req.cred.sub

(* C18: no step removes or changes an order row, and a step that adds order
   rows is the commit of a checkout, answered 200, and adds rows of the
   caller of that checkout only. *)
C18_OrdersOnlyGrowAtCheckout ==
  [][/\ orders \subseteq orders'
     /\ \A o \in orders' : \A p \in orders : o.id = p.id => o = p
     /\ orders' # orders
          => (/\ req'.route = "POST /api/checkout" /\ resp'.status = 200
              /\ req'.cred.state = "valid"
              /\ \A o \in orders' \ orders : o.user_id = req'.cred.sub)]_vars

(* C18 witness: a checkout has committed and the caller has exactly one order
   while another user holds an order made before. *)
C18_Witness ==
  /\ req.route = "POST /api/checkout" /\ resp.status = 200
  /\ Cardinality({o \in orders : o.user_id = req.cred.sub}) = 1
  /\ \E o1, o2 \in orders : o1.user_id = req.cred.sub /\ o2.user_id # req.cred.sub /\ o2.id < o1.id

(* App shows the pages while the client holds a token, else the login screen *)
Authenticated(c) == c.token # JsNull

(* C19, as claimed: the client becomes authenticated by a successful login
   only, and holds the token and the user of that answer; when it stops
   being authenticated its token and user are cleared, in localStorage too;
   and when a request with its token is refused with 401 because the token
   has expired, it is not authenticated any more. *)
C19_SessionStateMachine ==
  [][/\ (~Authenticated(client) /\ Authenticated(client'))
          => (/\ req'.route = "POST /api/auth/login" /\ resp'.status = 200
              /\ client'.token = resp'.body.token /\ client'.user = resp'.body.user)
     /\ (/\ ~Authenticated(client) /\ req'.route = "POST /api/auth/login"
         /\ <<req, resp>>' # <<req, resp>> /\ resp'.status = 200)
          => Authenticated(client')
     /\ (Authenticated(client) /\ ~Authenticated(client'))
          => (/\ client'.user = JsNull
              /\ client'.storedToken = JsNull /\ client'.storedUser = JsNull)
     /\ (/\ Authenticated(client) /\ req'.route \in GatedRoutes
         /\ <<req, resp>>' # <<req, resp>>
         /\ req'.cred.state = "expired" /\ resp'.status = 401)
          => ~Authenticated(client')]_vars

(* C20: the step in which the client stops being authenticated sends no
   request and changes nothing on the server, and after it the gate still
   accepts the token the client held, as the same user, at every time before
   the expiry of the token, and answers 401 at every time from the expiry
   on. *)
C20_LogoutIsClientOnly ==
  [][(Authenticated(client) /\ ~Authenticated(client'))
       => /\ UNCHANGED <<backend, now, db, nextId, inflight, txs, emitted, req, resp>>
          /\ \A tk \in {client.token} :
               \A t \in now..(tk.claims.exp + MaxLate) :
                 LET gate == AuthGate(<<"Bearer", tk>>, t)' IN
                 IF t < tk.claims.exp
                   THEN gate.ok /\ gate.user = Subject(tk)
                   ELSE ~gate.ok /\ gate.status = 401]_vars

(* C20 witness: the client has logged out after a request with its token was
   answered 200, and the gate accepts a token of that login now. *)
C20_Witness ==
  /\ ~Authenticated(client) /\ client.storedToken = JsNull
  /\ req.route = "GET /api/products" /\ resp.status = 200
  /\ now > 0
  /\ AuthGate(<<"Bearer", FlaskIssue(req.cred.sub, 0)>>, now).ok

(* The plain-DOM client is logged in: a token is stored *)
LoggedIn(pg) == pg.token # JsNull

(* A product-list request of the plain-DOM client (page load, search or
   newProduct event) *)
PageListRequest == loadProducts \/ onNewProduct

(* C21: every product-list request of a logged-in plain-DOM client carries
   the stored token as an Authorization: Bearer header, and is not answered
   401 while the stored token is valid. *)
C21_LoggedInRequestsCarryToken ==
  [][(LoggedIn(page) /\ PageListRequest)
       => /\ req'.cred = Cred(<<"Bearer", page.token>>, now)
          /\ (page.token.claims.exp > now => resp'.status # 401)]_vars

(* Error texts of the datastore *)
RawErrorTexts == {UniqueViolationText(e) : e \in Emails}

(* C22: an error answer has a status of the taxonomy and a body {error:
   message} whose message is not the datastore's error text; in particular
   no failure leaves a handler uncaught (the framework's own error page). *)
C22_FailuresAreTaxonomyErrors ==
  resp.status >= 400
    => /\ resp.status \in {400, 401, 403, 404, 409, 500}
       /\ DOMAIN resp.body = {"error"}
       /\ resp.body.error \notin RawErrorTexts

(* C23: every stored cart item has quantity >= 1; an add-to-cart request
   with a quantity of zero or less is answered with an error and stores
   nothing, and one without a quantity stores quantity 1. *)
C23_QuantityAtLeastOne ==
  [][/\ \A c \in cart_items' : c.quantity >= 1
     /\ (add_cart /\ "quantity" \in DOMAIN req'.data /\ req'.data.quantity <= 0)
          => (resp'.status >= 400 /\ cart_items' = cart_items)
     /\ (add_cart /\ "quantity" \notin DOMAIN req'.data)
          => \A c \in cart_items' \ cart_items : c.quantity = 1]_vars

(* C24: a checkout loses no cart item, whatever add-to-cart request of the
   same user runs between its two statements: of every product, the commit
   takes no more rows out of the cart than it adds rows to the orders of
   that user. *)
C24_CheckoutLosesNoItem ==
  [][checkout_commit
       => \A u \in {c.user_id : c \in cart_items}, p \in ProductIds :
            Cardinality({c \in cart_items \ cart_items' : c.user_id = u /\ c.product_id = p})
              <= Cardinality({o \in orders' \ orders : o.user_id = u /\ o.product_id = p})]_vars

(* C25: the Express server emits newProduct once for each product it has
   inserted and at no other time: the count of emissions equals the count
   of stored products, an emission happens exactly in the step that inserts
   a product, and that step answers 201 to a POST /api/products with a valid
   token and a title, category and price.  The plain-DOM client runs its
   handler at most once an emission, each run requests the product list, and
   every emission is eventually followed by such a request. *)
C25_NewProductEmission ==
  /\ [](emitted = Cardinality(products) /\ page.seen <= emitted)
  /\ [][/\ emitted' \in {emitted, emitted + 1}
        /\ (emitted' = emitted + 1) <=> (products' # products)
        /\ (emitted' # emitted)
             => /\ req'.route = "POST /api/products" /\ resp'.status = 201
                /\ req'.cred.state = "valid"
                /\ Truthy(req'.data, "title") /\ Truthy(req'.data, "category")
                /\ "price" \in DOMAIN req'.data /\ req'.data.price # 0
        /\ (page'.seen # page.seen)
             => /\ page'.seen = page.seen + 1
                /\ req'.route = "GET /api/products"]_vars
  /\ \A n \in 1..MaxProducts : (emitted >= n) ~> (page.seen >= n)

(* C25 witness: every product stored was announced, and the page has run its
   handler for each announcement and asked for the list again (the answer, an
   error, is logged). *)
C25_Witness ==
  /\ emitted >= 1 /\ emitted = Cardinality(products)
  /\ page.seen = emitted
  /\ req.route = "GET /api/products"
  /\ page.error # JsNull

====
